---- MODULE Spec2Model ----
(***************************************************************************)
(* Upload-and-publish pipeline of the video hosting backend: the two       *)
(* thumbnail handlers (disk-backed asset file, base64 data URL) and the    *)
(* three video handlers (plain, aspect-prefixed direct URL, signed URL).   *)
(*                                                                         *)
(* Text is modelled as a sequence of atoms: each of the characters          *)
(* "/", ";", " ", "=", ",", ".", ":" is an atom of its own and every       *)
(* maximal run of other characters is one atom, so that splitting,         *)
(* trimming, lower-casing and extension extraction are computed on the     *)
(* text and not assumed.                                                   *)
(***************************************************************************)
EXTENDS Integers, Sequences, FiniteSets, TLC

VARIABLES db, fs, s3, h, served

vars == <<db, fs, s3, h, served>>

(***************************************************************************)
(* Bounds                                                                  *)
(***************************************************************************)
MaxRequests == 1

MaxDim == 2

(***************************************************************************)
(* Program constants                                                       *)
(***************************************************************************)
StatusOK == 200

StatusBadRequest == 400

StatusUnauthorized == 401

StatusNotFound == 404

StatusInternalServerError == 500

PresignExpirySeconds == 3600

(***************************************************************************)
(* Text helpers (Go strings / mime / path/filepath)                        *)
(***************************************************************************)
Separators == {"/", ";", " ", "=", ",", ":"}

LowerMap == [a \in {"VIDEO", "MP4", "Image", "PNG"} |->
               CASE a = "VIDEO" -> "video"
                 [] a = "MP4" -> "mp4"
                 [] a = "Image" -> "image"
                 [] a = "PNG" -> "png"]

ToLowerAtom(a) == IF a \in DOMAIN LowerMap THEN LowerMap[a] ELSE a

ToLower(s) == [i \in 1..Len(s) |-> ToLowerAtom(s[i])]

RECURSIVE TrimLeft(_)
TrimLeft(s) == IF s # <<>> /\ Head(s) = " " THEN TrimLeft(Tail(s)) ELSE s

RECURSIVE TrimRight(_)
TrimRight(s) ==
  IF s # <<>> /\ s[Len(s)] = " " THEN TrimRight(SubSeq(s, 1, Len(s) - 1)) ELSE s

TrimSpace(s) == TrimRight(TrimLeft(s))

\* index of the first occurrence of atom a in s, 0 when absent
IndexOf(s, a) ==
  IF \E i \in 1..Len(s) : s[i] = a
  THEN CHOOSE i \in 1..Len(s) : s[i] = a /\ \A j \in 1..(i - 1) : s[j] # a
  ELSE 0

\* strings.Split(s, sep): always at least one part, parts may be empty
RECURSIVE Split(_, _)
Split(s, sep) ==
  LET i == IndexOf(s, sep)
  IN IF i = 0 THEN <<s>>
     ELSE <<SubSeq(s, 1, i - 1)>> \o Split(SubSeq(s, i + 1, Len(s)), sep)

HasPrefix(s, pre) == Len(s) >= Len(pre) /\ SubSeq(s, 1, Len(pre)) = pre

\* filepath.Ext: the suffix beginning at the final dot of the last path element
RECURSIVE ExtFrom(_, _)
ExtFrom(path, i) ==
  IF i < 1 \/ path[i] = "/" THEN <<>>
  ELSE IF path[i] = "." THEN SubSeq(path, i, Len(path))
  ELSE ExtFrom(path, i - 1)

Ext(path) == ExtFrom(path, Len(path))

\* mime.consumeToken: the longest leading run of token atoms and what follows
RECURSIVE TokenLen(_)
TokenLen(s) ==
  IF s = <<>> \/ Head(s) \in Separators THEN 0 ELSE 1 + TokenLen(Tail(s))

consumeToken(s) ==
  [token |-> SubSeq(s, 1, TokenLen(s)), rest |-> SubSeq(s, TokenLen(s) + 1, Len(s))]

\* mime.checkMediaTypeDisposition: TRUE when s is "token" or "token/token"
checkMediaTypeDisposition(s) ==
  LET t == consumeToken(s)
  IN /\ t.token # <<>>
     /\ \/ t.rest = <<>>
        \/ /\ Head(t.rest) = "/"
           /\ LET u == consumeToken(Tail(t.rest))
              IN u.token # <<>> /\ u.rest = <<>>

\* mime.consumeMediaParam: ";" token "=" token; key is empty when malformed
consumeMediaParam(v) ==
  LET fail == [key |-> <<>>, rest |-> v]
      r0 == TrimLeft(v)
  IN IF r0 = <<>> \/ Head(r0) # ";" THEN fail
     ELSE LET p == consumeToken(TrimLeft(Tail(r0)))
              r1 == TrimLeft(p.rest)
          IN IF p.token = <<>> \/ r1 = <<>> \/ Head(r1) # "=" THEN fail
             ELSE LET val == consumeToken(TrimLeft(Tail(r1)))
                  IN IF val.token = <<>> THEN fail
                     ELSE [key |-> ToLower(p.token), rest |-> val.rest]

RECURSIVE ParamsValid(_, _)
ParamsValid(v, seen) ==
  LET v1 == TrimLeft(v)
  IN IF v1 = <<>> THEN TRUE
     ELSE LET r == consumeMediaParam(v1)
          IN IF r.key = <<>> THEN TrimSpace(r.rest) = <<";">>
             ELSE IF r.key \in seen THEN FALSE
             ELSE ParamsValid(r.rest, seen \cup {r.key})

\* mime.ParseMediaType: lower-cased, trimmed media type and an error flag
ParseMediaType(v) ==
  LET i == IndexOf(v, ";")
      base == IF i = 0 THEN v ELSE SubSeq(v, 1, i - 1)
      rest == IF i = 0 THEN <<>> ELSE SubSeq(v, i, Len(v))
      mediatype == ToLower(TrimSpace(base))
  IN IF ~checkMediaTypeDisposition(mediatype)
     THEN [mediatype |-> <<>>, err |-> TRUE]
     ELSE [mediatype |-> mediatype, err |-> ~ParamsValid(rest, {})]

\* base64.StdEncoding.EncodeToString over a byte sequence
B64Alphabet ==
  <<"A","B","C","D","E","F","G","H","I","J","K","L","M","N","O","P",
    "Q","R","S","T","U","V","W","X","Y","Z","a","b","c","d","e","f",
    "g","h","i","j","k","l","m","n","o","p","q","r","s","t","u","v",
    "w","x","y","z","0","1","2","3","4","5","6","7","8","9","+","/">>

B64Char(n) == B64Alphabet[n + 1]

RECURSIVE EncodeToString(_)
EncodeToString(b) ==
  IF Len(b) = 0 THEN <<>>
  ELSE IF Len(b) = 1
  THEN <<B64Char(b[1] \div 4), B64Char((b[1] % 4) * 16), "=", "=">>
  ELSE IF Len(b) = 2
  THEN <<B64Char(b[1] \div 4), B64Char((b[1] % 4) * 16 + b[2] \div 16),
         B64Char((b[2] % 16) * 4), "=">>
  ELSE <<B64Char(b[1] \div 4), B64Char((b[1] % 4) * 16 + b[2] \div 16),
         B64Char((b[2] % 16) * 4 + b[3] \div 64), B64Char(b[3] % 64)>>
       \o EncodeToString(SubSeq(b, 4, Len(b)))

(***************************************************************************)
(* Configuration and inputs                                                *)
(***************************************************************************)
Procs == {"p1", "p2"}

\* requests of Spec are served one at a time, by p1
SeqProcs == {"p1"}

ThumbVariants == {"thumbDisk", "thumbB64"}

VideoVariants == {"videoPlain", "videoAspect", "videoSigned"}

AspectVariants == {"videoAspect", "videoSigned"}

s3Bucket == <<"tubely">>

s3Region == <<"us-east-2">>

port == "8091"

\* path values of {videoID}: a stored record, a well-formed ID without
\* record, and a string that is no UUID
IDStrings == {"v1", "v2", "not-a-uuid"}

Authorizations ==
  { <<>>, <<"Bearer", " ", "forged">>,
    <<"Bearer", " ", "tok-u1">>, <<"Bearer", " ", "tok-u2">> }

\* declared content types of the file part, by upload kind
VideoContentTypes ==
  { <<>>,
    <<"video", "/", "mp4">>,
    <<"VIDEO", "/", "MP4">>,
    <<"video", "/", "mp4", ";", " ", "codecs", "=", "avc1">>,
    <<"video", "/", "mp4", ";", " ", "codecs">>,
    <<"image", "/", "png">>,
    <<"/", "mp4">> }

ThumbContentTypes ==
  { <<>>,
    <<"image", "/", "png">>,
    <<"image", "/", "jpeg">>,
    <<"Image", "/", "PNG", ";">>,
    <<"text", "/", "plain">>,
    <<"/", "png">> }

Filenames ==
  { <<"clip", ".", "mp4">>, <<"clip", ".", "mp4", ",", "v">> }

Bodies == { <<>>, <<255, 216>> }

HexIDs == {"0a1b"}

TempIDs == {"t1", "t2"}

TempOrder == [id \in TempIDs |-> IF id = "t1" THEN 1 ELSE 2]

NilPtr == [nil |-> TRUE, val |-> <<>>]

Ptr(v) == [nil |-> FALSE, val |-> v]

NoVideo == [ID |-> "", UserID |-> "", ThumbnailURL |-> NilPtr, VideoURL |-> NilPtr]

NoPart == [contentType |-> <<>>, filename |-> <<>>, body |-> <<>>]

\* the multipart payloads of a request to a handler variant: a body that is
\* no multipart form, a form without the file field, or a form whose file
\* part declares a content type, a file name and bytes
Payloads(variant) ==
  { [formOK |-> FALSE, hasField |-> FALSE, part |-> NoPart],
    [formOK |-> TRUE, hasField |-> FALSE, part |-> NoPart] }
  \cup
  { [formOK |-> TRUE, hasField |-> TRUE,
     part |-> [contentType |-> c, filename |-> f, body |-> b]] :
       c \in IF variant \in VideoVariants THEN VideoContentTypes ELSE ThumbContentTypes,
       f \in IF variant \in VideoVariants THEN Filenames ELSE {<<"thumb", ".", "png">>},
       b \in IF variant = "thumbB64" THEN Bodies ELSE {<<77, 97, 110>>} }

Requests(variant) ==
  { [videoID |-> i, authorization |-> a, payload |-> pl] :
      i \in IDStrings, a \in Authorizations, pl \in Payloads(variant) }

NoRequest == [videoID |-> "", authorization |-> <<>>,
              payload |-> [formOK |-> FALSE, hasField |-> FALSE, part |-> NoPart]]

InitialVideos ==
  { [ID |-> "v1", UserID |-> "u1",
     ThumbnailURL |-> Ptr(<<"http://localhost:", port, "/assets/", "v1", ".", "png">>),
     VideoURL |-> NilPtr] }

(***************************************************************************)
(* External collaborators                                                  *)
(***************************************************************************)
\* uuid.Parse
UUIDParse(str) == [id |-> str, err |-> str \notin {"v1", "v2"}]

\* auth.GetBearerToken: the token after "Bearer ", an error without it
GetBearerToken(hdr) ==
  LET parts == Split(hdr, " ")
  IN IF hdr = <<>> \/ Len(parts) < 2 \/ parts[1] # <<"Bearer">>
     THEN [token |-> <<>>, err |-> TRUE]
     ELSE [token |-> parts[2], err |-> FALSE]

\* auth.ValidateJWT: the subject of a token signed with the server's secret
ValidateJWT(token) ==
  IF token = <<"tok-u1">> THEN [userID |-> "u1", err |-> FALSE]
  ELSE IF token = <<"tok-u2">> THEN [userID |-> "u2", err |-> FALSE]
  ELSE [userID |-> "", err |-> TRUE]

\* database GetVideo: the record, or an error when there is none
GetVideo(d, id) ==
  IF id \in DOMAIN d THEN [video |-> d[id], err |-> FALSE]
  ELSE [video |-> NoVideo, err |-> TRUE]

\* getAssetPath / getAssetDiskPath / getAssetURL of the asset helpers
getAssetPath(videoID, mediaType) == <<videoID, ".">> \o mediaType

getAssetDiskPath(assetPath) == <<"assets/">> \o assetPath

getAssetURL(assetPath) == <<"http://localhost:", port, "/assets/">> \o assetPath

\* generatePresignedURL: a GET URL for bucket and key that carries its expiry
generatePresignedURL(bucket, key, expireSeconds) ==
  <<"https://">> \o bucket \o <<".s3.amazonaws.com/">> \o key
    \o <<"?X-Amz-Expires=", ToString(expireSeconds), "&X-Amz-Signature=sig">>

(***************************************************************************)
(* Handler state                                                           *)
(***************************************************************************)
Idle ==
  [pc |-> "idle", variant |-> "none", req |-> NoRequest,
   videoID |-> "", userID |-> "", token |-> <<>>, video |-> NoVideo,
   mediaType |-> <<>>, parsedType |-> <<>>,
   tempName |-> <<>>, processedPath |-> <<>>, assetPath |-> <<>>,
   fileBytes |-> <<>>, ratio |-> <<>>, prefix |-> <<>>, videoKey |-> <<>>,
   signedVideo |-> NoVideo, resolved |-> <<>>,
   probeOut |-> [exit |-> 0, json |-> FALSE, streams |-> <<>>],
   defers |-> <<>>, resp |-> <<>>, trace |-> <<>>, panicked |-> FALSE,
   ioErr |-> FALSE,
   dbAtStart |-> NoVideo, fsAtStart |-> {}, s3AtStart |-> {},
   created |-> {}, puts |-> {}, updates |-> <<>>]

Upd(r, u) == [k \in DOMAIN r |-> IF k \in DOMAIN u THEN u[k] ELSE r[k]]

\* one step of the handler: record the step and change the given locals
Step(p, name, u) ==
  h' = [h EXCEPT ![p] = Upd(Upd(@, u), [trace |-> Append(h[p].trace, name)])]

\* a response written by the step about to be recorded
Response(p, code, body) ==
  Append(h[p].resp, [status |-> code, body |-> body, at |-> Len(h[p].trace) + 1])

\* respondWithError followed by return
respondWithError(p, name, code) ==
  Step(p, name, [pc |-> "ret", resp |-> Response(p, code, NoVideo)])

Init ==
  /\ \E v \in InitialVideos : db = [i \in {"v1"} |-> v]
  /\ fs = {}
  /\ s3 = {}
  /\ h = [p \in Procs |-> Idle]
  /\ served = 0

\* a request arrives at one of the handler variants
StartRequest(p) ==
  /\ h[p].pc = "idle"
  /\ served < MaxRequests
  /\ \E variant \in ThumbVariants \cup VideoVariants :
       \E r \in Requests(variant) :
         h' = [h EXCEPT ![p] =
                 Upd(Idle, [pc |-> "parseID", variant |-> variant, req |-> r,
                            dbAtStart |-> IF "v1" \in DOMAIN db THEN db["v1"] ELSE NoVideo,
                            fsAtStart |-> fs, s3AtStart |-> s3])]
  /\ served' = served + 1
  /\ UNCHANGED <<db, fs, s3>>

\* the 500 response to a failed file, tool, store or signer call, and return
dependencyFailure(p, name) ==
  Step(p, name, [pc |-> "ret", ioErr |-> TRUE,
                 resp |-> Response(p, StatusInternalServerError, NoVideo)])

\* videoID, err := uuid.Parse(r.PathValue("videoID"))
ParseVideoID(p) ==
  /\ h[p].pc = "parseID"
  /\ LET r == UUIDParse(h[p].req.videoID)
     IN IF r.err THEN respondWithError(p, "parseID", StatusBadRequest)
        ELSE Step(p, "parseID", [pc |-> "bearer", videoID |-> r.id])
  /\ UNCHANGED <<db, fs, s3, served>>

\* token, err := auth.GetBearerToken(r.Header)
BearerToken(p) ==
  /\ h[p].pc = "bearer"
  /\ LET r == GetBearerToken(h[p].req.authorization)
     IN IF r.err THEN respondWithError(p, "bearer", StatusUnauthorized)
        ELSE Step(p, "bearer", [pc |-> "jwt", token |-> r.token])
  /\ UNCHANGED <<db, fs, s3, served>>
\* ValidateToken with the validation error dropped (userID, _ := ...)
ValidateToken_IgnoreErr(p) ==
  /\ h[p].pc = "jwt"
  /\ Step(p, "jwt",
          [pc |-> IF h[p].variant \in VideoVariants THEN "getVideo" ELSE "parseForm",
           userID |-> ValidateJWT(h[p].token).userID])
  /\ UNCHANGED <<db, fs, s3, served>>

\* userID, err := auth.ValidateJWT(token, cfg.jwtSecret)
ValidateToken(p) ==
  /\ h[p].pc = "jwt"
  /\ LET r == ValidateJWT(h[p].token)
     IN IF r.err THEN respondWithError(p, "jwt", StatusUnauthorized)
        ELSE Step(p, "jwt",
                  [pc |-> IF h[p].variant \in VideoVariants THEN "getVideo" ELSE "parseForm",
                   userID |-> r.userID])
  /\ UNCHANGED <<db, fs, s3, served>>

\* video, err := cfg.db.GetVideo(videoID): 404 in the video handlers, 500 in
\* the thumbnail handlers
LoadVideo(p) ==
  /\ h[p].pc = "getVideo"
  /\ LET r == GetVideo(db, h[p].videoID)
     IN IF r.err
        THEN respondWithError(p, "getVideo",
               IF h[p].variant \in VideoVariants THEN StatusNotFound
               ELSE StatusInternalServerError)
        ELSE Step(p, "getVideo", [pc |-> "owner", video |-> r.video])
  /\ UNCHANGED <<db, fs, s3, served>>

\* if video.UserID != userID
CheckOwner(p) ==
  /\ h[p].pc = "owner"
  /\ IF h[p].video.UserID # h[p].userID
     THEN respondWithError(p, "owner", StatusUnauthorized)
     ELSE Step(p, "owner",
               [pc |-> IF h[p].variant \in VideoVariants THEN "parseForm" ELSE "update"])
  /\ UNCHANGED <<db, fs, s3, served>>

\* err = r.ParseMultipartForm(...)
ParseMultipartForm(p) ==
  /\ h[p].pc = "parseForm"
  /\ IF ~h[p].req.payload.formOK
     THEN respondWithError(p, "parseForm", StatusBadRequest)
     ELSE Step(p, "parseForm", [pc |-> "formFile"])
  /\ UNCHANGED <<db, fs, s3, served>>

\* file, header, err := r.FormFile(...): the video handlers return after the
\* error response, the thumbnail handlers fall through to the next statement
FormFile(p) ==
  /\ h[p].pc = "formFile"
  /\ IF h[p].req.payload.hasField
     THEN Step(p, "formFile",
               [pc |-> "header",
                defers |-> Append(h[p].defers, [op |-> "close", path |-> <<"multipart">>])])
     ELSE IF h[p].variant \in VideoVariants
     THEN respondWithError(p, "formFile", StatusBadRequest)
     ELSE Step(p, "formFile",
               [pc |-> "header",
                resp |-> Response(p, StatusBadRequest, NoVideo)])
  /\ UNCHANGED <<db, fs, s3, served>>

\* header.Header.Get("Content-Type") and the empty check; with no file part
\* the file and its header are nil and the handler panics on their use
ContentTypeHeader(p) ==
  /\ h[p].pc = "header"
  /\ IF ~h[p].req.payload.hasField
     THEN Step(p, "header", [pc |-> "ret", panicked |-> TRUE])
     ELSE LET ct == h[p].req.payload.part.contentType
          IN IF ct = <<>>
             THEN respondWithError(p, "header", StatusBadRequest)
             ELSE Step(p, "header",
                       [pc |-> IF h[p].variant = "thumbB64" THEN "readAll" ELSE "parseMedia",
                        mediaType |-> ct])
  /\ UNCHANGED <<db, fs, s3, served>>

AllowedTypes(variant) ==
  IF variant \in VideoVariants THEN { <<"video", "/", "mp4">> }
  ELSE { <<"image", "/", "jpeg">>, <<"image", "/", "png">> }
\* ParseMedia rejecting only when the parse fails and the type is off the list
ParseMedia_And(p) ==
  /\ h[p].pc = "parseMedia"
  /\ LET r == ParseMediaType(h[p].mediaType)
     IN IF r.err /\ r.mediatype \notin AllowedTypes(h[p].variant)
        THEN respondWithError(p, "parseMedia", StatusBadRequest)
        ELSE Step(p, "parseMedia",
                  [pc |-> IF h[p].variant \in VideoVariants THEN "createTemp" ELSE "create",
                   parsedType |-> r.mediatype])
  /\ UNCHANGED <<db, fs, s3, served>>

\* mime.ParseMediaType and the allow-list of the handler
ParseMedia(p) ==
  /\ h[p].pc = "parseMedia"
  /\ LET r == ParseMediaType(h[p].mediaType)
     IN IF r.err \/ r.mediatype \notin AllowedTypes(h[p].variant)
        THEN respondWithError(p, "parseMedia", StatusBadRequest)
        ELSE Step(p, "parseMedia",
                  [pc |-> IF h[p].variant \in VideoVariants THEN "createTemp" ELSE "create",
                   parsedType |-> r.mediatype])
  /\ UNCHANGED <<db, fs, s3, served>>

\* assetPath := getAssetPath(videoID, mediaType); os.Create(disk path)
CreateAsset(p) ==
  /\ h[p].pc = "create"
  /\ LET assetPath == getAssetPath(h[p].videoID, h[p].mediaType)
         disk == getAssetDiskPath(assetPath)
     IN \/ /\ dependencyFailure(p, "create")
           /\ fs' = fs
        \/ /\ Step(p, "create",
                   [pc |-> "copyAsset", assetPath |-> assetPath,
                    created |-> h[p].created \cup {disk},
                    defers |-> Append(h[p].defers, [op |-> "close", path |-> disk])])
           /\ fs' = fs \cup {disk}
  /\ UNCHANGED <<db, s3, served>>

\* io.Copy(thumbnailFile, multipartFile)
CopyAsset(p) ==
  /\ h[p].pc = "copyAsset"
  /\ \/ dependencyFailure(p, "copyAsset")
     \/ Step(p, "copyAsset", [pc |-> "getVideo"])
  /\ UNCHANGED <<db, fs, s3, served>>

\* fileBytesThumbnail, err := io.ReadAll(multipartFile)
ReadAll(p) ==
  /\ h[p].pc = "readAll"
  /\ \/ dependencyFailure(p, "readAll")
     \/ Step(p, "readAll", [pc |-> "getVideo", fileBytes |-> h[p].req.payload.part.body])
  /\ UNCHANGED <<db, fs, s3, served>>

TempPath(id) == <<"/tmp/tubely-upload-", id, ".mp4">>

\* os.CreateTemp("", "tubely-upload-*.mp4") and the deferred close and remove;
\* the name is one not in use, and as names are interchangeable the first
\* free one stands for all
FreeTempID(files) ==
  CHOOSE id \in TempIDs :
    /\ TempPath(id) \notin files
    /\ \A other \in TempIDs :
         (TempPath(other) \notin files /\ other # id) => TempOrder[id] < TempOrder[other]

CreateTemp(p) ==
  /\ h[p].pc = "createTemp"
  /\ \/ /\ dependencyFailure(p, "createTemp")
        /\ fs' = fs
     \/ /\ \E id \in TempIDs : TempPath(id) \notin fs
        /\ LET name == TempPath(FreeTempID(fs))
           IN /\ Step(p, "createTemp",
                      [pc |-> "copy", tempName |-> name,
                       created |-> h[p].created \cup {name},
                       defers |-> Append(h[p].defers,
                                         [op |-> "closeRemove", path |-> name])])
              /\ fs' = fs \cup {name}
  /\ UNCHANGED <<db, s3, served>>

\* io.Copy(tempFile, videoFile)
CopyTemp(p) ==
  /\ h[p].pc = "copy"
  /\ \/ dependencyFailure(p, "copy")
     \/ Step(p, "copy", [pc |-> "seek"])
  /\ UNCHANGED <<db, fs, s3, served>>

\* tempFile.Seek(0, io.SeekStart)
SeekTemp(p) ==
  /\ h[p].pc = "seek"
  /\ \/ dependencyFailure(p, "seek")
     \/ Step(p, "seek",
             [pc |-> IF h[p].variant \in AspectVariants THEN "probe" ELSE "genKey"])
  /\ UNCHANGED <<db, fs, s3, served>>

Dims == 0..MaxDim

\* what ffprobe can print for the staged file: a failed run, output that is
\* no JSON, or a list of streams with their width and height
ProbeOutputs ==
  { [exit |-> 1, json |-> FALSE, streams |-> <<>>],
    [exit |-> 0, json |-> FALSE, streams |-> <<>>],
    [exit |-> 0, json |-> TRUE, streams |-> <<>>],
    [exit |-> 0, json |-> TRUE,
     streams |-> << [Width |-> 0, Height |-> 0], [Width |-> MaxDim, Height |-> 1] >>] }
  \cup
  { [exit |-> 0, json |-> TRUE, streams |-> << [Width |-> w, Height |-> ht] >>] :
      w \in Dims, ht \in Dims }

\* fmt.Sprintf("%d", n) and strconv.Atoi (0 when the text is no number)
Itoa(n) == ToString(n)

Atoi(a) ==
  IF Len(a) = 1 /\ \E n \in Dims : Itoa(n) = a[1]
  THEN CHOOSE n \in Dims : Itoa(n) = a[1]
  ELSE 0

getVideoAspectRatio(out) ==
  IF out.exit # 0 \/ ~out.json \/ Len(out.streams) = 0
  THEN [ratio |-> <<>>, err |-> TRUE]
  ELSE LET width == out.streams[1].Width
           height == out.streams[1].Height
       IN IF width = 0 \/ height = 0
          THEN [ratio |-> <<>>, err |-> TRUE]
          ELSE [ratio |-> <<Itoa(width), ":", Itoa(height)>>, err |-> FALSE]

\* ratio, err := getVideoAspectRatio(tempFile.Name())
Probe(p) ==
  /\ h[p].pc = "probe"
  /\ \E out \in ProbeOutputs :
       LET r == getVideoAspectRatio(out)
       IN IF r.err
          THEN Step(p, "probe",
                    [pc |-> "ret", probeOut |-> out,
                     resp |-> Response(p, StatusInternalServerError, NoVideo)])
          ELSE Step(p, "probe", [pc |-> "classify", probeOut |-> out, ratio |-> r.ratio])
  /\ UNCHANGED <<db, fs, s3, served>>

\* the key prefixes of a handler variant: "-" in the signed variant, "/" in the
\* direct-URL variant
Landscape(variant) == IF variant = "videoSigned" THEN <<"landscape-">> ELSE <<"landscape", "/">>

Portrait(variant) == IF variant = "videoSigned" THEN <<"portrait-">> ELSE <<"portrait", "/">>

Other(variant) == IF variant = "videoSigned" THEN <<"other-">> ELSE <<"other", "/">>

\* Categorize Orientation: split the ratio at ":" and compare the numbers
orientationPrefix(variant, ratio) ==
  LET parts == Split(ratio, ":")
  IN IF Len(parts) = 2
     THEN LET w == Atoi(parts[1])
              ht == Atoi(parts[2])
          IN IF w > ht THEN Landscape(variant)
             ELSE IF ht > w THEN Portrait(variant)
             ELSE Other(variant)
     ELSE Other(variant)

Classify(p) ==
  /\ h[p].pc = "classify"
  /\ Step(p, "classify",
          [pc |-> IF h[p].variant = "videoSigned" THEN "remux" ELSE "genKey",
           prefix |-> orientationPrefix(h[p].variant, h[p].ratio)])
  /\ UNCHANGED <<db, fs, s3, served>>

\* processVideoForFastStart: the sibling path, an error when ffmpeg fails
processVideoForFastStart(filePath, exit) ==
  IF exit # 0 THEN [path |-> <<>>, err |-> TRUE]
  ELSE [path |-> filePath \o <<".processing">>, err |-> FALSE]

\* processedPath, err := processVideoForFastStart(tempFile.Name()); ffmpeg
\* writes its output file as it runs, so a failed run may leave one behind
Remux(p) ==
  /\ h[p].pc = "remux"
  /\ \E exit \in {0, 1}, wrote \in BOOLEAN :
       /\ exit = 0 => wrote
       /\ LET r == processVideoForFastStart(h[p].tempName, exit)
              out == h[p].tempName \o <<".processing">>
          IN /\ fs' = IF wrote THEN fs \cup {out} ELSE fs
             /\ IF r.err
                THEN Step(p, "remux",
                          [pc |-> "ret", ioErr |-> TRUE,
                           resp |-> Response(p, StatusInternalServerError, NoVideo),
                           created |-> IF wrote THEN h[p].created \cup {out}
                                       ELSE h[p].created])
                ELSE Step(p, "remux",
                          [pc |-> "open", processedPath |-> r.path,
                           created |-> h[p].created \cup {r.path},
                           defers |-> Append(h[p].defers,
                                             [op |-> "remove", path |-> r.path])])
  /\ UNCHANGED <<db, s3, served>>

\* processedFile, err := os.Open(processedPath)
OpenProcessed(p) ==
  /\ h[p].pc = "open"
  /\ \/ dependencyFailure(p, "open")
     \/ Step(p, "open",
             [pc |-> "genKey",
              defers |-> Append(h[p].defers, [op |-> "close", path |-> h[p].processedPath])])
  /\ UNCHANGED <<db, fs, s3, served>>

\* videoKey := prefix + fmt.Sprintf("%x%s", uuid.New(), filepath.Ext(name))
objectKey(prefix, hex, filename) == prefix \o <<hex>> \o Ext(filename)

GenKey(p) ==
  /\ h[p].pc = "genKey"
  /\ \E hex \in HexIDs :
       Step(p, "genKey",
            [pc |-> "put",
             videoKey |-> objectKey(h[p].prefix, hex, h[p].req.payload.part.filename)])
  /\ UNCHANGED <<db, fs, s3, served>>

\* PutObject with the transport error dropped (_, _ = cfg.s3Client.PutObject)
PutObject_IgnoreErr(p) ==
  /\ h[p].pc = "put"
  /\ \/ /\ Step(p, "put", [pc |-> "update"])
        /\ s3' = s3
     \/ LET obj == [Bucket |-> s3Bucket, Key |-> h[p].videoKey,
                    ContentType |-> h[p].parsedType]
        IN /\ Step(p, "put", [pc |-> "update", puts |-> h[p].puts \cup {obj}])
           /\ s3' = s3 \cup {obj}
  /\ UNCHANGED <<db, fs, served>>

\* cfg.s3Client.PutObject(ctx, {Bucket, Key, Body, ContentType})
PutObject(p) ==
  /\ h[p].pc = "put"
  /\ \/ /\ dependencyFailure(p, "put")
        /\ s3' = s3
     \/ LET obj == [Bucket |-> s3Bucket, Key |-> h[p].videoKey,
                    ContentType |-> h[p].parsedType]
        IN /\ Step(p, "put", [pc |-> "update", puts |-> h[p].puts \cup {obj}])
           /\ s3' = s3 \cup {obj}
  /\ UNCHANGED <<db, fs, served>>

\* the URL a handler variant sets on the record before cfg.db.UpdateVideo
directURL(key) ==
  <<"https://">> \o s3Bucket \o <<".s3.">> \o s3Region \o <<".amazonaws.com/">> \o key

bucketAndKey(bucket, key) == bucket \o <<",">> \o key

dataURL(mediaType, bytes) ==
  <<"data:">> \o mediaType \o <<";base64,">> \o EncodeToString(bytes)

recordToStore(hp) ==
  CASE hp.variant = "thumbDisk" ->
         [hp.video EXCEPT !.ThumbnailURL = Ptr(getAssetURL(hp.assetPath))]
    [] hp.variant = "thumbB64" ->
         [hp.video EXCEPT !.ThumbnailURL = Ptr(dataURL(hp.mediaType, hp.fileBytes))]
    [] hp.variant = "videoSigned" ->
         [hp.video EXCEPT !.VideoURL = Ptr(bucketAndKey(s3Bucket, hp.videoKey))]
    [] OTHER ->
         [hp.video EXCEPT !.VideoURL = Ptr(directURL(hp.videoKey))]

\* database UpdateVideo: the row of the record's ID takes every field of the
\* record it is given
dbUpdateVideo(d, video) == [d EXCEPT ![video.ID] = video]

\* video.<URL> = &url; err := cfg.db.UpdateVideo(video)
UpdateVideo(p) ==
  /\ h[p].pc = "update"
  /\ LET video == recordToStore(h[p])
     IN \/ /\ Step(p, "update",
                   [pc |-> "ret", video |-> video, ioErr |-> TRUE,
                    resp |-> Response(p, StatusInternalServerError, NoVideo)])
           /\ db' = db
        \/ /\ Step(p, "update",
                   [pc |-> IF h[p].variant = "videoSigned" THEN "sign" ELSE "respond",
                    video |-> video, updates |-> Append(h[p].updates, video)])
           /\ db' = dbUpdateVideo(db, video)
  /\ UNCHANGED <<fs, s3, served>>

\* dbVideoToSignedVideo: split the stored value at "," and presign bucket, key
dbVideoToSignedVideo(video, signerErr) ==
  IF video.VideoURL.nil \/ video.VideoURL.val = <<>>
  THEN [video |-> video, parts |-> <<>>, err |-> FALSE]
  ELSE LET parts == Split(video.VideoURL.val, ",")
       IN IF Len(parts) # 2 THEN [video |-> video, parts |-> parts, err |-> TRUE]
          ELSE IF signerErr THEN [video |-> video, parts |-> parts, err |-> TRUE]
          ELSE [video |-> [video EXCEPT !.VideoURL =
                             Ptr(generatePresignedURL(parts[1], parts[2],
                                                      PresignExpirySeconds))],
                parts |-> parts, err |-> FALSE]
\* Sign writing the record with the presigned URL back to the store
Sign_Persist(p) ==
  /\ h[p].pc = "sign"
  /\ \E signerErr \in BOOLEAN :
       LET r == dbVideoToSignedVideo(h[p].video, signerErr)
       IN IF r.err
          THEN /\ Step(p, "sign",
                       [pc |-> "ret", resolved |-> r.parts,
                        ioErr |-> (Len(r.parts) = 2),
                        resp |-> Response(p, StatusInternalServerError, NoVideo)])
               /\ db' = db
          ELSE /\ Step(p, "sign",
                       [pc |-> "respond", resolved |-> r.parts, signedVideo |-> r.video,
                        video |-> r.video, updates |-> Append(h[p].updates, r.video)])
               /\ db' = [db EXCEPT ![r.video.ID] = r.video]
  /\ UNCHANGED <<fs, s3, served>>

\* signedVideo, err := cfg.dbVideoToSignedVideo(video)
Sign(p) ==
  /\ h[p].pc = "sign"
  /\ \E signerErr \in BOOLEAN :
       LET r == dbVideoToSignedVideo(h[p].video, signerErr)
       IN IF r.err
          THEN Step(p, "sign",
                    [pc |-> "ret", resolved |-> r.parts,
                     ioErr |-> (Len(r.parts) = 2),
                     resp |-> Response(p, StatusInternalServerError, NoVideo)])
          ELSE Step(p, "sign",
                    [pc |-> "respond", resolved |-> r.parts, signedVideo |-> r.video])
  /\ UNCHANGED <<db, fs, s3, served>>

\* respondWithJSON(w, http.StatusOK, video)
Respond(p) ==
  /\ h[p].pc = "respond"
  /\ Step(p, "respond",
          [pc |-> "ret",
           resp |-> Response(p, StatusOK,
                             IF h[p].variant = "videoSigned"
                             THEN h[p].signedVideo ELSE h[p].video)])
  /\ UNCHANGED <<db, fs, s3, served>>

\* the deferred calls, last registered first
RECURSIVE RunDefers(_, _)
RunDefers(defers, files) ==
  IF defers = <<>> THEN files
  ELSE LET d == defers[Len(defers)]
       IN RunDefers(SubSeq(defers, 1, Len(defers) - 1),
                    IF d.op \in {"closeRemove", "remove"} THEN files \ {d.path} ELSE files)

\* the handler returns (or unwinds after a panic) and its deferred calls run
Return(p) ==
  /\ h[p].pc = "ret"
  /\ fs' = RunDefers(h[p].defers, fs)
  /\ h' = [h EXCEPT ![p] = Upd(@, [pc |-> "done", defers |-> <<>>])]
  /\ UNCHANGED <<db, s3, served>>

\* the goroutine that served the request ends and its locals are gone
Finish(p) ==
  /\ h[p].pc = "done"
  /\ h' = [h EXCEPT ![p] = Idle]
  /\ UNCHANGED <<db, fs, s3, served>>

Next ==
  \E p \in SeqProcs :
    \/ StartRequest(p)
    \/ ParseVideoID(p)
    \/ BearerToken(p)
    \/ ValidateToken(p)
    \/ LoadVideo(p)
    \/ CheckOwner(p)
    \/ ParseMultipartForm(p)
    \/ FormFile(p)
    \/ ContentTypeHeader(p)
    \/ ParseMedia(p)
    \/ CreateAsset(p)
    \/ CopyAsset(p)
    \/ ReadAll(p)
    \/ CreateTemp(p)
    \/ CopyTemp(p)
    \/ SeekTemp(p)
    \/ Probe(p)
    \/ Classify(p)
    \/ Remux(p)
    \/ OpenProcessed(p)
    \/ GenKey(p)
    \/ PutObject(p)
    \/ UpdateVideo(p)
    \/ Sign(p)
    \/ Respond(p)
    \/ Return(p)
    \/ Finish(p)

Spec == Init /\ [][Next]_vars

(***************************************************************************)
(* Two requests of the owner for the same record served concurrently: a    *)
(* thumbnail upload by p1 and a video upload by p2, their steps            *)
(* interleaved in any order.                                               *)
(***************************************************************************)
ConcVariants(p) == IF p = "p1" THEN ThumbVariants ELSE VideoVariants

ConcRequest(variant) ==
  [videoID |-> "v1", authorization |-> <<"Bearer", " ", "tok-u1">>,
   payload |->
     [formOK |-> TRUE, hasField |-> TRUE,
      part |-> IF variant \in VideoVariants
               THEN [contentType |-> <<"video", "/", "mp4">>,
                     filename |-> <<"clip", ".", "mp4">>, body |-> <<77, 97, 110>>]
               ELSE [contentType |-> <<"image", "/", "png">>,
                     filename |-> <<"thumb", ".", "png">>, body |-> <<255, 216>>]]]

StartConcurrent(p) ==
  /\ h[p].pc = "idle"
  /\ \E variant \in ConcVariants(p) :
       h' = [h EXCEPT ![p] =
               Upd(Idle, [pc |-> "parseID", variant |-> variant,
                          req |-> ConcRequest(variant),
                          dbAtStart |-> db["v1"], fsAtStart |-> fs, s3AtStart |-> s3])]
  /\ served' = served + 1
  /\ UNCHANGED <<db, fs, s3>>

NextConc ==
  \E p \in Procs :
    \/ StartConcurrent(p)
    \/ ParseVideoID(p)
    \/ BearerToken(p)
    \/ ValidateToken(p)
    \/ LoadVideo(p)
    \/ CheckOwner(p)
    \/ ParseMultipartForm(p)
    \/ FormFile(p)
    \/ ContentTypeHeader(p)
    \/ ParseMedia(p)
    \/ CreateAsset(p)
    \/ CopyAsset(p)
    \/ ReadAll(p)
    \/ CreateTemp(p)
    \/ CopyTemp(p)
    \/ SeekTemp(p)
    \/ Probe(p)
    \/ Classify(p)
    \/ Remux(p)
    \/ OpenProcessed(p)
    \/ GenKey(p)
    \/ PutObject(p)
    \/ UpdateVideo(p)
    \/ Sign(p)
    \/ Respond(p)
    \/ Return(p)

SpecConc == Init /\ [][NextConc]_vars

(***************************************************************************)
(* Properties                                                              *)
(***************************************************************************)
Done(p) == h[p].pc = "done"

Statuses(p) == [i \in 1..Len(h[p].resp) |-> h[p].resp[i].status]

IsThumb(p) == h[p].variant \in ThumbVariants

IsVideo(p) == h[p].variant \in VideoVariants

\* what the request carries, read off the request and not off the handler
ReqIDOk(p) == ~UUIDParse(h[p].req.videoID).err

ReqPrincipal(p) ==
  LET b == GetBearerToken(h[p].req.authorization)
  IN IF b.err THEN [userID |-> "", err |-> TRUE] ELSE ValidateJWT(b.token)

Unauthenticated(p) == h[p].pc # "idle" /\ ReqPrincipal(p).err

Authenticated(p) == h[p].pc # "idle" /\ ~ReqPrincipal(p).err

RecordExists(p) == h[p].req.videoID \in DOMAIN db

IsOwner(p) ==
  /\ ReqIDOk(p) /\ Authenticated(p) /\ RecordExists(p)
  /\ db[h[p].req.videoID].UserID = ReqPrincipal(p).userID

NonOwner(p) ==
  /\ ReqIDOk(p) /\ Authenticated(p) /\ RecordExists(p)
  /\ db[h[p].req.videoID].UserID # ReqPrincipal(p).userID

HasPart(p) == h[p].req.payload.formOK /\ h[p].req.payload.hasField

\* the declared content type of the file part passes the handler's allow-list
DeclaredAllowed(p) ==
  LET ct == h[p].req.payload.part.contentType
      r == ParseMediaType(ct)
  IN ct # <<>> /\ ~r.err /\ r.mediatype \in AllowedTypes(h[p].variant)

\* the stored record is what it was when the request arrived
RecordUnmodified(p) ==
  /\ h[p].updates = <<>>
  /\ db["v1"] = h[p].dbAtStart

URLsUnchanged(p) ==
  /\ db["v1"].ThumbnailURL = h[p].dbAtStart.ThumbnailURL
  /\ db["v1"].VideoURL = h[p].dbAtStart.VideoURL

\* C1: in both upload handlers a request of a principal who does not own the
\* addressed record is answered 401 whatever its payload, and the record's
\* thumbnailURL and videoURL stay as they were.
C1_NonOwnerAlways401 ==
  \A p \in Procs :
    (Done(p) /\ NonOwner(p) /\ HasPart(p) /\ ~h[p].ioErr) =>
      (Statuses(p) = <<StatusUnauthorized>> /\ URLsUnchanged(p))

\* C2: in both upload handlers a request without a valid bearer credential
\* is answered 401 and leaves the record unmodified, for every path video ID
\* (well-formed or malformed) and every payload.
C2_Unauthenticated401AnyID ==
  \A p \in Procs :
    (Done(p) /\ Unauthenticated(p)) =>
      (Statuses(p) = <<StatusUnauthorized>> /\ RecordUnmodified(p))

\* C2 (amended): a request without a valid bearer credential is answered 401
\* when its path video ID is well-formed and 400 when it is malformed (the ID
\* is parsed before the credential is looked at); in both cases the record is
\* never modified.
C2_Unauthenticated401WellFormedID ==
  \A p \in Procs :
    Unauthenticated(p) =>
      /\ RecordUnmodified(p)
      /\ Done(p) =>
           Statuses(p) = IF ReqIDOk(p) THEN <<StatusUnauthorized>>
                         ELSE <<StatusBadRequest>>

C2_Witness ==
  \E p \in Procs :
    /\ Done(p) /\ Unauthenticated(p) /\ h[p].req.videoID = "v1"
    /\ h[p].req.authorization = <<"Bearer", " ", "forged">>
    /\ HasPart(p) /\ DeclaredAllowed(p)
    /\ Statuses(p) = <<StatusUnauthorized>>

\* C3: in each thumbnail handler variant (disk-backed asset file, base64 data
\* URL) an upload whose declared content type is not image/jpeg or image/png
\* (empty and unparseable included) is answered 400 and the record's
\* thumbnail URL is the same after the call as before it.
C3_BadThumbnailType400 ==
  \A p \in Procs :
    (Done(p) /\ IsThumb(p) /\ IsOwner(p) /\ HasPart(p) /\ ~DeclaredAllowed(p)
       /\ ~h[p].ioErr) =>
      /\ Statuses(p) = <<StatusBadRequest>>
      /\ db["v1"].ThumbnailURL = h[p].dbAtStart.ThumbnailURL

\* C4: a video upload by the record's owner whose declared content type is
\* empty, unparseable or parses to anything other than video/mp4 is answered
\* 400; the record is not modified, no temp file is created and no object is
\* put to the object store.
C4_BadVideoType400 ==
  \A p \in Procs :
    (IsVideo(p) /\ IsOwner(p) /\ HasPart(p) /\ ~DeclaredAllowed(p)) =>
      /\ RecordUnmodified(p)
      /\ h[p].created = {} /\ fs = h[p].fsAtStart
      /\ h[p].puts = {} /\ s3 = h[p].s3AtStart
      /\ Done(p) => Statuses(p) = <<StatusBadRequest>>

C4_Witness ==
  \E p \in Procs :
    /\ Done(p) /\ IsVideo(p) /\ IsOwner(p) /\ HasPart(p)
    /\ h[p].req.payload.part.contentType = <<"video", "/", "mp4", ";", " ", "codecs">>
    /\ "parseMedia" = h[p].trace[Len(h[p].trace)]
    /\ Statuses(p) = <<StatusBadRequest>>

\* C5: after the video-upload handler has returned, on success and on every
\* failure branch, neither the staged temp file nor the remuxed sibling file
\* "<temp>.processing" created during that request exists on disk.
C5_TempFilesGone ==
  \A p \in Procs :
    (Done(p) /\ IsVideo(p)) => \A f \in h[p].created : f \notin fs

Executed(p, name) == \E i \in 1..Len(h[p].trace) : h[p].trace[i] = name

\* the key prefix the orientation rule gives to a probed geometry
DashPrefix(w, ht) ==
  IF w > ht THEN <<"landscape-">> ELSE IF ht > w THEN <<"portrait-">> ELSE <<"other-">>

Determined(out) ==
  /\ out.exit = 0 /\ out.json /\ Len(out.streams) > 0
  /\ out.streams[1].Width # 0 /\ out.streams[1].Height # 0

\* the orientation rule on the handlers of a set of variants
OrientationRule(variants) ==
  \A p \in Procs :
    (h[p].variant \in variants /\ Executed(p, "probe")) =>
      IF Determined(h[p].probeOut)
      THEN h[p].videoKey # <<>> =>
             HasPrefix(h[p].videoKey,
                       DashPrefix(h[p].probeOut.streams[1].Width,
                                  h[p].probeOut.streams[1].Height))
      ELSE /\ h[p].videoKey = <<>> /\ h[p].puts = {} /\ h[p].updates = <<>>
           /\ Done(p) => Statuses(p) = <<StatusInternalServerError>>

\* C6: for every probed geometry of the first stream, width > height gives a
\* key starting with "landscape-", height > width "portrait-", equal non-zero
\* sides "other-"; a zero side or an empty stream list gives 500 with no
\* object stored and no record update, and "other-" is never a fallback for a
\* geometry that could not be determined.
C6_OrientationPrefix == OrientationRule(AspectVariants)

\* the same rule on the signed-URL handler alone
C6_OrientationPrefixSigned == OrientationRule({"videoSigned"})

\* C7: the composite "bucket,key" the signed-URL handler persists resolves in
\* dbVideoToSignedVideo to exactly the bucket and the key of the object-store
\* put, for every key the handler can generate (prefix, random hex and the
\* extension of the uploaded file's name).
C7_CompositeRoundTrip ==
  \A p \in Procs :
    (h[p].variant = "videoSigned" /\ Executed(p, "sign")) =>
      /\ h[p].resolved = <<s3Bucket, h[p].videoKey>>
      /\ \E o \in h[p].puts : <<o.Bucket, o.Key>> = h[p].resolved

IsPresignedURL(url) == \E i \in 1..Len(url) : url[i] = "?X-Amz-Expires="

IsComposite(url, bucket, key) ==
  /\ ~IsPresignedURL(url)
  /\ Len(url) = Len(bucket) + 1 + Len(key)
  /\ SubSeq(url, 1, Len(bucket)) = bucket
  /\ url[Len(bucket) + 1] = ","
  /\ SubSeq(url, Len(bucket) + 2, Len(url)) = key

\* C8: in the signed-URL handler the video URL written to the metadata store
\* is always the composite "bucket,key" and never the presigned URL; the
\* presigned URL (one hour expiry) appears only in the response payload, and
\* no metadata-store update happens after signing.
C8_SignedURLNeverPersisted ==
  \A p \in Procs :
    h[p].variant = "videoSigned" =>
      /\ Len(h[p].updates) <= 1
      /\ \A i \in 1..Len(h[p].updates) :
           /\ ~h[p].updates[i].VideoURL.nil
           /\ IsComposite(h[p].updates[i].VideoURL.val, s3Bucket, h[p].videoKey)
           /\ db["v1"].VideoURL = h[p].updates[i].VideoURL
      /\ \A i, j \in 1..Len(h[p].trace) :
           (h[p].trace[i] = "sign" /\ h[p].trace[j] = "update") => j < i
      /\ \A i \in 1..Len(h[p].resp) :
           h[p].resp[i].status = StatusOK =>
             /\ h[p].resp[i].body.VideoURL.val =
                  <<"https://">> \o s3Bucket \o <<".s3.amazonaws.com/">> \o h[p].videoKey
                    \o <<"?X-Amz-Expires=", "3600", "&X-Amz-Signature=sig">>
             /\ db["v1"].VideoURL # h[p].resp[i].body.VideoURL
             /\ ~IsPresignedURL(db["v1"].VideoURL.val)

C8_Witness ==
  \E p \in Procs :
    /\ Done(p) /\ h[p].variant = "videoSigned" /\ Statuses(p) = <<StatusOK>>
    /\ IsPresignedURL(h[p].resp[1].body.VideoURL.val)
    /\ IsComposite(db["v1"].VideoURL.val, s3Bucket, h[p].videoKey)
    /\ h[p].dbAtStart.VideoURL.nil

\* C9: in both upload handlers an authenticated request with a well-formed
\* video ID for which the metadata store has no record is answered 404.
C9_UnknownRecord404 ==
  \A p \in Procs :
    (Done(p) /\ ReqIDOk(p) /\ Authenticated(p) /\ ~RecordExists(p)
       /\ HasPart(p) /\ DeclaredAllowed(p) /\ ~h[p].ioErr) =>
      Statuses(p) = <<StatusNotFound>>

\* C10: once a step detects a failure the handler writes exactly one error
\* response and executes no later pipeline step; a thumbnail upload without
\* the "thumbnail" form field is answered 400 and stops there.
C10_ErrorIsTerminal ==
  \A p \in Procs :
    /\ Len(h[p].resp) <= 1
    /\ ~h[p].panicked
    /\ \A i \in 1..Len(h[p].resp) :
         h[p].resp[i].status # StatusOK => h[p].resp[i].at = Len(h[p].trace)

\* the request ended with an error response
EndedWithError(p) ==
  /\ Done(p) /\ h[p].resp # <<>>
  /\ h[p].resp[Len(h[p].resp)].status # StatusOK

\* C11: whenever the signed-URL video handler ends with an error response
\* the record in the metadata store is identical to what it was before the
\* request, also when resolving the presigned URL fails after the
\* object-store put and the metadata-store update have succeeded.
C11_ErrorLeavesRecord ==
  \A p \in Procs :
    (h[p].variant = "videoSigned" /\ EndedWithError(p)
       /\ h[p].req.payload.part.filename = <<"clip", ".", "mp4">>) =>
      db["v1"] = h[p].dbAtStart

\* C12: in the disk-backed thumbnail handler the ownership check precedes
\* content-type validation and every storage side effect: a request of a
\* principal who does not own the record never creates, truncates or
\* overwrites the asset file at the path derived from video ID and content
\* type.
C12_NonOwnerNeverWritesAsset ==
  \A p \in Procs :
    (h[p].variant = "thumbDisk" /\ NonOwner(p)) =>
      /\ h[p].created = {}
      /\ fs = h[p].fsAtStart

HasSuffix(s, suf) ==
  Len(s) >= Len(suf) /\ SubSeq(s, Len(s) - Len(suf) + 1, Len(s)) = suf

\* the URL is the direct URL or the composite of an object's bucket and key
NamesObject(url, o) ==
  /\ HasSuffix(url, o.Key)
  /\ LET head == SubSeq(url, 1, Len(url) - Len(o.Key))
     IN \/ head = o.Bucket \o <<",">>
        \/ head = <<"https://">> \o o.Bucket \o <<".s3.", "us-east-2", ".amazonaws.com/">>

\* C13: in every video handler variant the metadata-store update of the video
\* URL happens only after the object-store put for the same key succeeded:
\* every video URL the handler persists names (as direct URL or "bucket,key")
\* a key under which that request stored an object, and a failed put leaves
\* the record unmodified.
C13_UpdateOnlyAfterPut ==
  \A p \in Procs :
    IsVideo(p) =>
      /\ \A i \in 1..Len(h[p].updates) :
           \E o \in h[p].puts :
             /\ o \in s3
             /\ o.Key = h[p].videoKey
             /\ ~h[p].updates[i].VideoURL.nil
             /\ NamesObject(h[p].updates[i].VideoURL.val, o)
             /\ db["v1"].VideoURL = h[p].updates[i].VideoURL
      /\ \A i, j \in 1..Len(h[p].trace) :
           (h[p].trace[i] = "update" /\ h[p].trace[j] = "put") => j < i
      /\ (h[p].pc # "idle" /\ h[p].puts = {}) =>
           /\ h[p].updates = <<>>
           /\ db["v1"] = h[p].dbAtStart
           /\ (Done(p) /\ Executed(p, "put")) =>
                Statuses(p) = <<StatusInternalServerError>>

C13_Witness ==
  \E p \in Procs :
    /\ Done(p) /\ IsVideo(p) /\ Statuses(p) = <<StatusOK>>
    /\ Len(h[p].updates) = 1
    /\ \E o \in h[p].puts : o \in s3 /\ NamesObject(db["v1"].VideoURL.val, o)
    /\ db["v1"].VideoURL # h[p].dbAtStart.VideoURL

C13_WitnessPutFailed ==
  \E p \in Procs :
    /\ Done(p) /\ IsVideo(p) /\ h[p].trace[Len(h[p].trace)] = "put"
    /\ h[p].puts = {} /\ db["v1"] = h[p].dbAtStart

\* C14: when a thumbnail upload and a video upload of the owner for the same
\* record run concurrently, in any interleaving, and both respond 200, the
\* final record carries both the new thumbnail URL and the new video URL:
\* neither handler's write-back of the record it read with GetVideo reverts
\* the field the other handler updated.
C14_BothURLsSurvive ==
  \A p, q \in Procs :
    ( /\ IsThumb(p) /\ IsVideo(q)
      /\ h[p].videoID = h[q].videoID
      /\ Done(p) /\ Statuses(p) = <<StatusOK>>
      /\ Done(q) /\ Statuses(q) = <<StatusOK>> ) =>
      /\ db["v1"].ThumbnailURL = h[p].updates[1].ThumbnailURL
      /\ db["v1"].VideoURL = h[q].updates[1].VideoURL

====
